---------------------------- MODULE Spec2Model ----------------------------
(***************************************************************************)
(* Model of the two asynchronous bridges of the repository:                *)
(*                                                                         *)
(*  - the evaluation store of rag-admin-ui (lib/stores/evaluation-store.ts)*)
(*    with its setInterval-based job poller, and                           *)
(*  - transformAgentStreamToUIStream of the chat route (SSE -> UI stream). *)
(*                                                                         *)
(* JavaScript runs each callback to its next await without interruption,   *)
(* so every action below is one such run-to-completion step.               *)
(***************************************************************************)
EXTENDS Integers, Sequences, FiniteSets, Bags, TLC

(***************************************************************************)
(* Bounds of the model.                                                    *)
(***************************************************************************)
MaxTimers == 2
MaxInFlight == 2

JobIds == {"j1", "j2"}

VARIABLES
    \* ---- evaluation store (evaluation-store.ts) ----
    jobs,              \* EvaluationJob[]: sequence of [job_id, status]
    currentResults,    \* "null" or the job id whose results are held
    pollingIntervals,  \* Map<jobId, timer>: a function on the polled job ids
    \* ---- JavaScript runtime and network ----
    timers,            \* live interval timers: timer id -> job id of its closure
    nextTimer,         \* next id setInterval hands out
    requests,          \* bag of REST calls awaiting their promise
    \* ---- remote rag-tester service ----
    serverStatus,      \* job id -> "queued" | "running" | "completed" | "failed"
    \* ---- observation ----
    pollResults,       \* timer id -> results fetches its ticks have started
    startIgnored,      \* the latest step was a startPolling that returned at line 204
    settled,           \* the latest step settled a tick's status fetch: how ("none" otherwise)
    statusFetches,     \* status fetches the ticks of a scripted run have started
    script,            \* scripted run: the answers the service has yet to give
    \* ---- chat route: transformAgentStreamToUIStream and its caller ----
    wire,              \* every character the agent service sends on this stream
    sent,              \* how many of them reader.read() has handed over
    upstream,          \* "open" | "closed" | "failed": how the agent stream ended
    pc,                \* start(): "reading" at the await of line 147, or "returned"
    readerLocked,      \* agentStream.getReader() taken and not yet released
    buffer,            \* line 139 (messageId, currentText, sources and
                       \* classification, lines 140-143, are written and never read)
    outState,          \* the returned ReadableStream: "readable" | "closed" | "errored"
    closeRequested,    \* controller.close() called while chunks were still queued
    queue,             \* chunks enqueued and not yet read
    emitted,           \* every chunk controller.enqueue accepted, in order
    consumer,          \* "idle" | "waiting" | "done" | "failed" | "cancelled"
    written            \* what the caller has passed to dataStream.write, in order

storeVars == <<jobs, currentResults, pollingIntervals>>
streamVars == <<wire, sent, upstream, pc, readerLocked, buffer,
                outState, closeRequested, queue, emitted,
                consumer, written>>
pollVars == <<jobs, currentResults, pollingIntervals,
              timers, nextTimer, requests, serverStatus, pollResults,
              startIgnored, settled>>
scenarioVars == <<statusFetches, script>>
vars == <<pollVars, scenarioVars, streamVars>>

TimerIds == 1..MaxTimers
Terminal == {"completed", "failed"}
Statuses == {"queued", "running", "completed", "failed"}

(***************************************************************************)
(* Helpers: Map and array operations used by the store.                    *)
(***************************************************************************)
MapSet(m, k, v) == [x \in DOMAIN m \cup {k} |-> IF x = k THEN v ELSE m[x]]

MapDelete(m, k) == [x \in DOMAIN m \ {k} |-> m[x]]

EmptyMap == [x \in {} |-> 0]

\* a write that adds the fetched record when the store holds none for jobId
ReplaceJobOrAdd(js, jobId, job) ==
    IF \E i \in 1..Len(js) : js[i].job_id = jobId
    THEN [i \in 1..Len(js) |-> IF js[i].job_id = jobId THEN job ELSE js[i]]
    ELSE <<job>> \o js

\* jobs.map((j) => (j.job_id === jobId ? job : j))
ReplaceJob(js, jobId, job) ==
    [i \in 1..Len(js) |-> IF js[i].job_id = jobId THEN job ELSE js[i]]

\* the EvaluationJob the status endpoint returns for jobId
ServerJob(jobId, st) == [job_id |-> jobId, status |-> st]

\* a new pending REST call
NewRequest(call, jobId) ==
    [call |-> call, job |-> jobId, resp |-> "pending"]

(***************************************************************************)
(* Initial state: the store of lines 50-58 after submitEvaluation (lines    *)
(* 136-160) has returned for each job: every submitted job is prepended    *)
(* with status "queued", and the service knows it as queued.  The dataset  *)
(* actions and the isLoading / error flags are not part of the model.      *)
(***************************************************************************)
SubmittedJobs == <<ServerJob("j2", "queued"), ServerJob("j1", "queued")>>

PollInit ==
    /\ jobs = SubmittedJobs
    /\ currentResults = "null"
    /\ pollingIntervals = EmptyMap
    /\ timers = EmptyMap
    /\ nextTimer = 1
    /\ requests = EmptyBag
    /\ serverStatus = [j \in JobIds |-> "queued"]
    /\ pollResults = [t \in TimerIds |-> 0]
    /\ startIgnored = FALSE
    /\ settled = "none"

(***************************************************************************)
(* stopPolling, lines 234-244, as the maps it leaves behind.               *)
(***************************************************************************)
\* a stopPolling that drops every handle of the map
StopPollingIntervalsAll(jobId) == EmptyMap

\* a stopPolling that clears the timer and keeps the key
StopPollingIntervalsKept(jobId) == pollingIntervals

StopPollingIntervals(jobId) ==
    IF jobId \in DOMAIN pollingIntervals
    THEN MapDelete(pollingIntervals, jobId)
    ELSE pollingIntervals

\* a stopPolling that forgets the handle without clearInterval
StopPollingTimersKept(jobId) == timers

StopPollingTimers(jobId) ==
    IF jobId \in DOMAIN pollingIntervals
    THEN MapDelete(timers, pollingIntervals[jobId])
    ELSE timers

StopPolling(jobId) ==
    /\ pollingIntervals' = StopPollingIntervals(jobId)
    /\ timers' = StopPollingTimers(jobId)
    /\ UNCHANGED <<jobs, currentResults, nextTimer,
                   requests, serverStatus, pollResults>>
    /\ startIgnored' = FALSE
    /\ settled' = "none"
    /\ UNCHANGED <<scenarioVars, streamVars>>

\* a stopAllPolling that empties the map without clearInterval
ClearNoTimers == timers

\* stopAllPolling, lines 246-250: clearInterval on every value of the map
ClearAllTimers ==
    [t \in DOMAIN timers \ {pollingIntervals[j] : j \in DOMAIN pollingIntervals}
        |-> timers[t]]

StopAllPolling ==
    /\ timers' = ClearAllTimers
    /\ pollingIntervals' = EmptyMap
    /\ UNCHANGED <<jobs, currentResults, nextTimer,
                   requests, serverStatus, pollResults>>
    /\ startIgnored' = FALSE
    /\ settled' = "none"
    /\ UNCHANGED <<scenarioVars, streamVars>>

\* reset, lines 255-266
Reset ==
    /\ timers' = ClearAllTimers
    /\ jobs' = <<>>
    /\ currentResults' = "null"
    /\ pollingIntervals' = EmptyMap
    /\ UNCHANGED <<nextTimer, requests, serverStatus, pollResults>>
    /\ startIgnored' = FALSE
    /\ settled' = "none"
    /\ UNCHANGED <<scenarioVars, streamVars>>

(***************************************************************************)
(* startPolling, lines 199-232.                                            *)
(***************************************************************************)
\* startPolling without its guard: every call makes a timer
AlreadyPollingUnchecked(jobId) == FALSE

\* line 203: pollingIntervals.has(jobId)
AlreadyPolling(jobId) == jobId \in DOMAIN pollingIntervals

StartPolling(jobId) ==
    /\ IF AlreadyPolling(jobId)
       THEN /\ startIgnored' = TRUE
            /\ UNCHANGED <<jobs, currentResults, pollingIntervals, timers,
                           nextTimer, requests, serverStatus, pollResults>>
       ELSE /\ nextTimer <= MaxTimers
            /\ timers' = MapSet(timers, nextTimer, jobId)
            /\ nextTimer' = nextTimer + 1
            /\ pollingIntervals' = MapSet(pollingIntervals, jobId, nextTimer)
            /\ UNCHANGED <<jobs, currentResults, requests, serverStatus,
                           pollResults, startIgnored>>
    /\ settled' = "none"
    /\ UNCHANGED <<scenarioVars, streamVars>>

\* The interval fires: the callback runs to `await getJobStatus(jobId)`, line 209.
\* setInterval does not wait for the promise of an earlier callback.
TickCall(t) ==
    /\ t \in DOMAIN timers
    /\ BagCardinality(requests) < MaxInFlight
    /\ requests' = requests (+) SetToBag({[call |-> "poll", job |-> timers[t],
            timer |-> t, resp |-> "pending"]})
    /\ UNCHANGED <<jobs, currentResults, pollingIntervals,
                   timers, nextTimer, serverStatus, pollResults>>
    /\ startIgnored' = FALSE
    /\ settled' = "none"
    /\ UNCHANGED streamVars

Tick(t) == TickCall(t) /\ UNCHANGED scenarioVars

\* a callback that fetches results after every terminal status
PollResolveFetchesOnTerminal(r) ==
    /\ r \in BagToSet(requests)
    /\ r.call = "poll"
    /\ r.resp # "pending"
    /\ jobs' = ReplaceJob(jobs, r.job, ServerJob(r.job, r.resp))
    /\ IF r.resp \in Terminal
       THEN /\ pollingIntervals' = StopPollingIntervals(r.job)
            /\ timers' = StopPollingTimers(r.job)
            /\ requests' = (requests (-) SetToBag({r})) (+) SetToBag({NewRequest("results", r.job)})
            /\ pollResults' = [pollResults EXCEPT ![r.timer] = @ + 1]
       ELSE /\ requests' = requests (-) SetToBag({r})
            /\ UNCHANGED <<pollingIntervals, timers, pollResults>>
    /\ UNCHANGED <<currentResults, nextTimer, serverStatus>>
    /\ startIgnored' = FALSE
    /\ settled' = r.resp
    /\ UNCHANGED <<scenarioVars, streamVars>>

\* The status arrives: lines 210-222. A completed job starts fetchResults,
\* which runs to its own await (lines 174-176).
PollResolve(r) ==
    /\ r \in BagToSet(requests)
    /\ r.call = "poll"
    /\ r.resp # "pending"
    /\ jobs' = ReplaceJob(jobs, r.job, ServerJob(r.job, r.resp))
    /\ IF r.resp \in Terminal
       THEN /\ pollingIntervals' = StopPollingIntervals(r.job)
            /\ timers' = StopPollingTimers(r.job)
       ELSE UNCHANGED <<pollingIntervals, timers>>
    /\ IF r.resp = "completed"
       THEN /\ requests' = (requests (-) SetToBag({r})) (+) SetToBag({NewRequest("results", r.job)})
            /\ pollResults' = [pollResults EXCEPT ![r.timer] = @ + 1]
       ELSE /\ requests' = requests (-) SetToBag({r})
            /\ UNCHANGED pollResults
    /\ UNCHANGED <<currentResults, nextTimer, serverStatus>>
    /\ startIgnored' = FALSE
    /\ settled' = r.resp
    /\ UNCHANGED <<scenarioVars, streamVars>>

\* a catch that stops every poll instead of the poll of its own job
PollRejectStopsAll(r) ==
    /\ r \in BagToSet(requests)
    /\ r.call = "poll"
    /\ requests' = requests (-) SetToBag({r})
    /\ pollingIntervals' = EmptyMap
    /\ timers' = ClearAllTimers
    /\ UNCHANGED <<jobs, currentResults, nextTimer,
                   serverStatus, pollResults>>
    /\ startIgnored' = FALSE
    /\ settled' = "rejected"
    /\ UNCHANGED <<scenarioVars, streamVars>>

\* The status fetch rejects: lines 223-226.
PollReject(r) ==
    /\ r \in BagToSet(requests)
    /\ r.call = "poll"
    /\ requests' = requests (-) SetToBag({r})
    /\ pollingIntervals' = StopPollingIntervals(r.job)
    /\ timers' = StopPollingTimers(r.job)
    /\ UNCHANGED <<jobs, currentResults, nextTimer,
                   serverStatus, pollResults>>
    /\ startIgnored' = FALSE
    /\ settled' = "rejected"
    /\ UNCHANGED <<scenarioVars, streamVars>>

(***************************************************************************)
(* fetchJob, lines 162-171.                                                *)
(***************************************************************************)
FetchJobCall(jobId) ==
    /\ BagCardinality(requests) < MaxInFlight
    /\ requests' = requests (+) SetToBag({NewRequest("fetchJob", jobId)})
    /\ UNCHANGED <<jobs, currentResults, pollingIntervals,
                   timers, nextTimer, serverStatus, pollResults>>
    /\ startIgnored' = FALSE
    /\ settled' = "none"
    /\ UNCHANGED <<scenarioVars, streamVars>>

FetchJobResolve(r) ==
    /\ r \in BagToSet(requests)
    /\ r.call = "fetchJob"
    /\ r.resp # "pending"
    /\ jobs' = ReplaceJob(jobs, r.job, ServerJob(r.job, r.resp))
    /\ requests' = requests (-) SetToBag({r})
    /\ UNCHANGED <<currentResults, pollingIntervals,
                   timers, nextTimer, serverStatus, pollResults>>
    /\ startIgnored' = FALSE
    /\ settled' = "none"
    /\ UNCHANGED <<scenarioVars, streamVars>>

FetchJobReject(r) ==
    /\ r \in BagToSet(requests)
    /\ r.call = "fetchJob"
    /\ requests' = requests (-) SetToBag({r})
    /\ UNCHANGED <<jobs, currentResults, pollingIntervals,
                   timers, nextTimer, serverStatus, pollResults>>
    /\ startIgnored' = FALSE
    /\ settled' = "none"
    /\ UNCHANGED <<scenarioVars, streamVars>>

(***************************************************************************)
(* fetchResults, lines 173-184.                                            *)
(***************************************************************************)
\* The page calls fetchResults for a job its record shows as completed
\* (run/page.tsx lines 295-296).
FetchResultsCall(jobId) ==
    /\ \E i \in 1..Len(jobs) :
          jobs[i].job_id = jobId /\ jobs[i].status = "completed"
    /\ BagCardinality(requests) < MaxInFlight
    /\ requests' = requests (+) SetToBag({NewRequest("results", jobId)})
    /\ UNCHANGED <<jobs, currentResults, pollingIntervals,
                   timers, nextTimer, serverStatus, pollResults>>
    /\ startIgnored' = FALSE
    /\ settled' = "none"
    /\ UNCHANGED <<scenarioVars, streamVars>>

FetchResultsResolve(r) ==
    /\ r \in BagToSet(requests)
    /\ r.call = "results"
    /\ r.resp # "pending"
    /\ currentResults' = r.job
    /\ requests' = requests (-) SetToBag({r})
    /\ UNCHANGED <<jobs, pollingIntervals,
                   timers, nextTimer, serverStatus, pollResults>>
    /\ startIgnored' = FALSE
    /\ settled' = "none"
    /\ UNCHANGED <<scenarioVars, streamVars>>

FetchResultsReject(r) ==
    /\ r \in BagToSet(requests)
    /\ r.call = "results"
    /\ requests' = requests (-) SetToBag({r})
    /\ UNCHANGED <<jobs, currentResults, pollingIntervals,
                   timers, nextTimer, serverStatus, pollResults>>
    /\ startIgnored' = FALSE
    /\ settled' = "none"
    /\ UNCHANGED <<scenarioVars, streamVars>>

(***************************************************************************)
(* The remote service (rag-tester.ts lines 80-97 are its client side).     *)
(***************************************************************************)
\* The service answers a call from its state at that moment.
ServerAnswer(r) ==
    /\ r \in BagToSet(requests)
    /\ r.resp = "pending"
    /\ \/ /\ r.call \in {"poll", "fetchJob"}
          /\ requests' = (requests (-) SetToBag({r}))
                            (+) SetToBag({[r EXCEPT !.resp = serverStatus[r.job]]})
          /\ UNCHANGED serverStatus
       \/ /\ r.call = "results"
          /\ serverStatus[r.job] = "completed"
          /\ requests' = (requests (-) SetToBag({r}))
                            (+) SetToBag({[r EXCEPT !.resp = "ok"]})
          /\ UNCHANGED serverStatus
    /\ UNCHANGED <<jobs, currentResults, pollingIntervals,
                   timers, nextTimer, pollResults>>
    /\ startIgnored' = FALSE
    /\ settled' = "none"
    /\ UNCHANGED <<scenarioVars, streamVars>>

\* The evaluation itself advances: queued -> running -> completed | failed.
\* In the runs of the model the evaluation of j1 advances; that of j2 stays
\* queued, so that j2 is the other job whose handle and record are watched.
Advancing == {"j1"}

ServerAdvance(j) ==
    /\ \/ /\ serverStatus[j] = "queued"
          /\ serverStatus' = [serverStatus EXCEPT ![j] = "running"]
       \/ /\ serverStatus[j] = "running"
          /\ \E s \in Terminal : serverStatus' = [serverStatus EXCEPT ![j] = s]
    /\ UNCHANGED <<jobs, currentResults, pollingIntervals,
                   timers, nextTimer, requests, pollResults>>
    /\ startIgnored' = FALSE
    /\ settled' = "none"
    /\ UNCHANGED <<scenarioVars, streamVars>>

\* The poller: the store's polling operations, the timers, the settlement
\* of the calls they start, and the service.
PollNext ==
    \/ \E j \in JobIds : StartPolling(j)
    \/ \E j \in JobIds : StopPolling(j)
    \/ StopAllPolling
    \/ Reset
    \/ \E t \in TimerIds : Tick(t)
    \/ \E r \in BagToSet(requests) : PollResolve(r)
    \/ \E r \in BagToSet(requests) : PollReject(r)
    \/ \E r \in BagToSet(requests) : FetchResultsResolve(r)
    \/ \E r \in BagToSet(requests) : FetchResultsReject(r)
    \/ \E r \in BagToSet(requests) : ServerAnswer(r)
    \/ \E j \in Advancing : ServerAdvance(j)

\* The store with the page next to the poller: the page also calls fetchJob
\* and fetchResults (run/page.tsx lines 289 and 296).
StoreNext ==
    \/ \E j \in JobIds : StartPolling(j)
    \/ \E j \in JobIds : StopPolling(j)
    \/ StopAllPolling
    \/ Reset
    \/ \E t \in TimerIds : Tick(t)
    \/ \E r \in BagToSet(requests) : PollResolve(r)
    \/ \E r \in BagToSet(requests) : PollReject(r)
    \/ \E j \in JobIds : FetchJobCall(j)
    \/ \E r \in BagToSet(requests) : FetchJobResolve(r)
    \/ \E r \in BagToSet(requests) : FetchJobReject(r)
    \/ \E j \in JobIds : FetchResultsCall(j)
    \/ \E r \in BagToSet(requests) : FetchResultsResolve(r)
    \/ \E r \in BagToSet(requests) : FetchResultsReject(r)
    \/ \E r \in BagToSet(requests) : ServerAnswer(r)
    \/ \E j \in Advancing : ServerAdvance(j)

(***************************************************************************)
(* The chat route.  Text is a sequence of one-character strings.           *)
(***************************************************************************)
MaxFrames == 3

Newline == "\n"
Whitespace == {" ", "\r", "\t", Newline}

\* 'data: ' of line 160
DataPrefix == <<"d", "a", "t", "a", ":", " ">>

\* String.prototype.startsWith
StartsWith(s, prefix) ==
    /\ Len(s) >= Len(prefix)
    /\ SubSeq(s, 1, Len(prefix)) = prefix

\* String.prototype.slice(n)
Slice(s, n) == SubSeq(s, n + 1, Len(s))

\* String.prototype.trim
RECURSIVE TrimLeft(_)
TrimLeft(s) ==
    IF s # <<>> /\ Head(s) \in Whitespace THEN TrimLeft(Tail(s)) ELSE s

RECURSIVE TrimRight(_)
TrimRight(s) ==
    IF s # <<>> /\ s[Len(s)] \in Whitespace
    THEN TrimRight(SubSeq(s, 1, Len(s) - 1))
    ELSE s

Trim(s) == TrimRight(TrimLeft(s))

\* String.prototype.split('\n'): k terminators give k + 1 pieces
\* the pieces of s cut at the terminators, whose places are cut[1..k]
PiecesAt(s, cut, k) ==
    [m \in 1..(k + 1) |->
        SubSeq(s, (IF m = 1 THEN 0 ELSE cut[m - 1]) + 1,
                  (IF m = k + 1 THEN Len(s) + 1 ELSE cut[m]) - 1)]

\* the places nl in increasing order
Ascending(nl) ==
    [m \in 1..Cardinality(nl) |->
        CHOOSE i \in nl : Cardinality({j \in nl : j <= i}) = m]

SplitAt(s, nl) == PiecesAt(s, Ascending(nl), Cardinality(nl))

\* a split that never cuts: the whole text is one piece
SplitNone(s) == <<s>>

Split(s) == SplitAt(s, {i \in 1..Len(s) : s[i] = Newline})

(***************************************************************************)
(* JSON.parse on the payloads of the model.  A payload is written          *)
(* "{" kind "}", standing for the JSON object of that backend event; any   *)
(* other text stands for text JSON.parse throws on, but for the two        *)
(* payloads of Scenario A, which are kept as they are written.  JSON       *)
(* allows white space around the value.                                    *)
(***************************************************************************)
TokenKinds == {"h", "i"}
EventKinds == TokenKinds \cup {"s", "c", "d", "e", "u"}

TypeOf(k) ==
    CASE k \in TokenKinds -> "token"
      [] k = "s" -> "sources"
      [] k = "c" -> "classification"
      [] k = "d" -> "done"
      [] k = "e" -> "error"
      [] OTHER   -> "usage"

\* the two payloads of Scenario A, character by character:
\* {"type":"token","content":"Hi"} and {"type":"done"}
TokenHiJson ==
    <<"{", "\"", "t", "y", "p", "e", "\"", ":", "\"", "t", "o", "k", "e",
      "n", "\"", ",", "\"", "c", "o", "n", "t", "e", "n", "t", "\"", ":",
      "\"", "H", "i", "\"", "}">>

DoneJson ==
    <<"{", "\"", "t", "y", "p", "e", "\"", ":", "\"", "d", "o", "n", "e",
      "\"", "}">>

\* the value of a payload free of surrounding white space
ParseValue(t) ==
    IF Len(t) = 3 /\ t[1] = "{" /\ t[3] = "}" /\ t[2] \in EventKinds
    THEN [ok |-> TRUE, type |-> TypeOf(t[2]), content |-> t[2]]
    ELSE IF t = TokenHiJson
    THEN [ok |-> TRUE, type |-> "token", content |-> "Hi"]
    ELSE IF t = DoneJson
    THEN [ok |-> TRUE, type |-> "done", content |-> ""]
    ELSE [ok |-> FALSE, type |-> "", content |-> ""]

JsonParse(text) == ParseValue(Trim(text))

(***************************************************************************)
(* Lines 157-214: what one line does.  The result is the chunk the line    *)
(* passes to controller.enqueue (at most one).                             *)
(***************************************************************************)
NoChunk == <<>>

\* a switch whose token case sends a fixed text instead of data.content
ChunkOfFixedText(data) ==
    CASE data.type = "token" -> <<[type |-> "text-delta", value |-> "h"]>>
      [] data.type = "done"  -> <<[type |-> "finish", value |-> "stop"]>>
      [] OTHER               -> NoChunk

\* a switch with a default case that passes an unknown event on
ChunkOfWithDefault(data) ==
    CASE data.type = "token"   -> <<[type |-> "text-delta", value |-> data.content]>>
      [] data.type = "sources" -> <<[type |-> "data", value |-> "sources"]>>
      [] data.type = "done"    -> <<[type |-> "finish", value |-> "stop"]>>
      [] data.type = "classification" -> NoChunk
      [] OTHER                 -> <<[type |-> "data", value |-> data.type]>>

\* the switch of lines 164-209
ChunkOf(data) ==
    CASE data.type = "token"   -> <<[type |-> "text-delta", value |-> data.content]>>
      [] data.type = "sources" -> <<[type |-> "data", value |-> "sources"]>>
      [] data.type = "done"    -> <<[type |-> "finish", value |-> "stop"]>>
      [] OTHER                 -> NoChunk

\* lines 158-160: the line is a data line that reaches JSON.parse
IsDataLine(line) ==
    /\ \E i \in 1..Len(line) : line[i] \notin Whitespace
    /\ ~StartsWith(line, <<":">>)
    /\ StartsWith(line, DataPrefix)

\* a parser that reports a payload it cannot parse as an error chunk
TryChunkReportsFailure(data) ==
    IF data.ok THEN ChunkOf(data) ELSE <<[type |-> "error", value |-> "parse"]>>

\* lines 161-212: the try around JSON.parse and the switch
TryChunk(data) == IF data.ok THEN ChunkOf(data) ELSE NoChunk

LineChunk(line) ==
    IF IsDataLine(line) THEN TryChunk(JsonParse(Slice(line, 6))) ELSE NoChunk

\* a line loop that enqueues the chunks of the later lines first
RECURSIVE ChunksOfReversed(_)
ChunksOfReversed(lines) ==
    IF lines = <<>> THEN <<>>
    ELSE ChunksOfReversed(Tail(lines)) \o LineChunk(Head(lines))

RECURSIVE ChunksOf(_)
ChunksOf(lines) ==
    IF lines = <<>> THEN <<>>
    ELSE LineChunk(Head(lines)) \o ChunksOf(Tail(lines))

(***************************************************************************)
(* The agent service's side: the streams it may send.                      *)
(***************************************************************************)
\* a data line without its terminator
DataText(k) == DataPrefix \o <<"{", k, "}">>

DataLine(k) == DataPrefix \o <<"{", k, "}", Newline>>
InvalidLine == DataPrefix \o <<"{", "x", Newline>>
BlankLine == <<Newline>>
CommentLine == <<":", "k", Newline>>

\* the frames of the streams of SpecStream: two tokens, done, and a data
\* line with an invalid payload
Frames == {DataLine(k) : k \in {"h", "i", "d"}} \cup {InvalidLine}

RECURSIVE WiresUpTo(_)
WiresUpTo(n) ==
    IF n = 0 THEN {<<>>}
    ELSE LET shorter == WiresUpTo(n - 1)
         IN  shorter \cup {f \o w : f \in Frames, w \in shorter}

Wires == WiresUpTo(MaxFrames)

(***************************************************************************)
(* POST has called transformAgentStreamToUIStream (line 305): start() has  *)
(* taken the reader and waits at its first reader.read().                  *)
(***************************************************************************)
StreamStart ==
    /\ sent = 0
    /\ upstream = "open"
    /\ pc = "reading"
    /\ readerLocked = TRUE
    /\ buffer = <<>>
    /\ outState = "readable"
    /\ closeRequested = FALSE
    /\ queue = <<>>
    /\ emitted = <<>>
    /\ consumer = "idle"
    /\ written = <<>>

\* ReadableStreamDefaultControllerCanCloseOrEnqueue
CanCloseOrEnqueue == outState = "readable" /\ ~closeRequested

\* controller.enqueue for each chunk in turn: a pending read takes the
\* first chunk directly, the rest is queued.
EnqueueAll(chunks) ==
    /\ emitted' = emitted \o chunks
    /\ IF consumer = "waiting" /\ chunks # <<>>
       THEN /\ written' = Append(written, Head(chunks))
            /\ queue' = queue \o Tail(chunks)
            /\ consumer' = "idle"
       ELSE /\ queue' = queue \o chunks
            /\ UNCHANGED <<written, consumer>>

\* a decoder that keeps no fragment between two chunks
RetainedNothing(pieces) == <<>>

\* line 155: buffer = lines.pop() || '', the fragment after the last '\n'
Retained(pieces) == pieces[Len(pieces)]

\* lines 154-214 on the pieces of buffer + decoded chunk.
\* controller.enqueue sits inside the try of line 161, so the TypeError it
\* throws on a stream that is no longer readable is caught at line 210.
ProcessPieces(pieces) ==
    /\ buffer' = Retained(pieces)
    /\ EnqueueAll(IF CanCloseOrEnqueue
                  THEN ChunksOf(SubSeq(pieces, 1, Len(pieces) - 1))
                  ELSE <<>>)

\* reader.read() resolves with the next n characters: lines 147-215.
ReadChunk(n) ==
    /\ pc = "reading"
    /\ n \in 1..(Len(wire) - sent)
    /\ ProcessPieces(Split(buffer \o SubSeq(wire, sent + 1, sent + n)))
    /\ sent' = sent + n
    /\ UNCHANGED <<wire, upstream, pc, readerLocked, outState, closeRequested>>
    /\ UNCHANGED <<pollVars, scenarioVars>>

\* a start() that treats what is left in the buffer as a last line when
\* upstream closes
ReadDoneFlushes ==
    LET chunks == IF CanCloseOrEnqueue THEN LineChunk(buffer) ELSE <<>>
        direct == consumer = "waiting" /\ chunks # <<>>
        queued == IF direct THEN queue ELSE queue \o chunks
    IN  /\ pc = "reading"
        /\ sent = Len(wire)
        /\ upstream' = "closed"
        /\ pc' = "returned"
        /\ readerLocked' = FALSE
        /\ emitted' = emitted \o chunks
        /\ written' = IF direct THEN written \o chunks ELSE written
        /\ queue' = queued
        /\ outState' = IF CanCloseOrEnqueue /\ queued = <<>>
                       THEN "closed" ELSE outState
        /\ closeRequested' = (closeRequested \/ (CanCloseOrEnqueue /\ queued # <<>>))
        /\ consumer' = IF consumer = "waiting"
                       THEN (IF direct THEN "idle"
                             ELSE IF CanCloseOrEnqueue THEN "done" ELSE consumer)
                       ELSE consumer
        /\ UNCHANGED <<wire, sent, buffer>>
        /\ UNCHANGED <<pollVars, scenarioVars>>

\* reader.read() resolves with done: lines 149-151, 217, 220-222.
\* controller.close() on a stream that is no longer readable throws; the
\* catch of line 218 calls controller.error, which then does nothing.
ReadDone ==
    /\ pc = "reading"
    /\ sent = Len(wire)
    /\ upstream' = "closed"
    /\ pc' = "returned"
    /\ readerLocked' = FALSE
    /\ IF CanCloseOrEnqueue
       THEN IF queue = <<>>
            THEN /\ outState' = "closed"
                 /\ consumer' = IF consumer = "waiting" THEN "done" ELSE consumer
                 /\ UNCHANGED closeRequested
            ELSE /\ closeRequested' = TRUE
                 /\ UNCHANGED <<outState, consumer>>
       ELSE UNCHANGED <<outState, closeRequested, consumer>>
    /\ UNCHANGED <<wire, sent, buffer, queue,
                   emitted, written>>
    /\ UNCHANGED <<pollVars, scenarioVars>>

\* a start() without the finally of lines 220-222: a failed read keeps the lock
ReadFailKeepsLock ==
    /\ pc = "reading"
    /\ upstream' = "failed"
    /\ pc' = "returned"
    /\ IF outState = "readable"
       THEN /\ outState' = "errored"
            /\ queue' = <<>>
            /\ consumer' = IF consumer = "waiting" THEN "failed" ELSE consumer
       ELSE UNCHANGED <<outState, queue, consumer>>
    /\ UNCHANGED <<wire, sent, buffer, closeRequested, emitted, written,
                   readerLocked>>
    /\ UNCHANGED <<pollVars, scenarioVars>>

\* reader.read() rejects: lines 218-222.  controller.error drops the queue
\* and rejects a pending read, which the caller's loop rethrows (lines
\* 314-317).
ReadFail ==
    /\ pc = "reading"
    /\ upstream' = "failed"
    /\ pc' = "returned"
    /\ readerLocked' = FALSE
    /\ IF outState = "readable"
       THEN /\ outState' = "errored"
            /\ queue' = <<>>
            /\ consumer' = IF consumer = "waiting" THEN "failed" ELSE consumer
       ELSE UNCHANGED <<outState, queue, consumer>>
    /\ UNCHANGED <<wire, sent, buffer, closeRequested, emitted, written>>
    /\ UNCHANGED <<pollVars, scenarioVars>>

\* The caller's loop of lines 309-313: one reader.read() and, when it
\* resolves at once, dataStream.write(value).
Pull ==
    /\ consumer = "idle"
    /\ IF queue # <<>>
       THEN /\ written' = Append(written, Head(queue))
            /\ queue' = Tail(queue)
            /\ outState' = IF closeRequested /\ Tail(queue) = <<>>
                           THEN "closed" ELSE outState
            /\ UNCHANGED consumer
       ELSE /\ consumer' = CASE outState = "readable" -> "waiting"
                             [] outState = "closed"   -> "done"
                             [] OTHER                 -> "failed"
            /\ UNCHANGED <<queue, outState, written>>
    /\ UNCHANGED <<wire, sent, upstream, pc, readerLocked, buffer,
                   closeRequested, emitted>>
    /\ UNCHANGED <<pollVars, scenarioVars>>

\* A consumer cancels the returned stream.  The underlying source of lines
\* 135-224 has no cancel(): the stream closes and drops its queue, and
\* start() is left as it is.
Cancel ==
    /\ consumer \in {"idle", "waiting"}
    /\ consumer' = "cancelled"
    /\ IF outState = "readable"
       THEN /\ outState' = "closed"
            /\ queue' = <<>>
       ELSE UNCHANGED <<outState, queue>>
    /\ UNCHANGED <<wire, sent, upstream, pc, readerLocked, buffer,
                   closeRequested, emitted, written>>
    /\ UNCHANGED <<pollVars, scenarioVars>>

\* POST's own loop reads to the end and never cancels.
StreamNext ==
    \/ \E n \in 1..Len(wire) : ReadChunk(n)
    \/ ReadDone
    \/ ReadFail
    \/ Pull

\* Any consumer of the returned stream: it may also cancel.
CancelNext ==
    \/ \E n \in 1..Len(wire) : ReadChunk(n)
    \/ ReadDone
    \/ ReadFail
    \/ Pull
    \/ Cancel

\* The store alone: no chat stream is open.
\* no scripted run: the service answers from its own state
NoScript == statusFetches = 0 /\ script = <<>>

InitPoll == wire = <<>> /\ StreamStart /\ PollInit /\ NoScript

\* One chat stream; the store is left alone.
InitStream == wire \in Wires /\ StreamStart /\ PollInit /\ NoScript

SpecPoll == InitPoll /\ [][PollNext]_vars

SpecStore == InitPoll /\ [][StoreNext]_vars

SpecStream == InitStream /\ [][StreamNext]_vars

SpecCancel == InitStream /\ [][CancelNext]_vars

(***************************************************************************)
(* Streams with the other kinds of line.  SpecEvents: sources and error    *)
(* events and a data line without the space after the colon.  SpecVariants:*)
(* events the switch has no case for, blank lines and comments.            *)
(***************************************************************************)
\* 'data:' with the payload right after the colon
Marker == <<"d", "a", "t", "a", ":">>

NoSpaceLine(k) == Marker \o <<"{", k, "}", Newline>>

EventFrames ==
    {DataLine("h"), DataLine("s"), DataLine("e"), DataLine("d"),
     NoSpaceLine("i")}

VariantFrames ==
    {DataLine("h"), DataLine("c"), DataLine("u"), BlankLine, CommentLine}

\* the streams of up to n frames out of the set frames
RECURSIVE WiresOf(_, _)
WiresOf(frames, n) ==
    IF n = 0 THEN {<<>>}
    ELSE LET shorter == WiresOf(frames, n - 1)
         IN  shorter \cup {f \o w : f \in frames, w \in shorter}

InitEvents ==
    /\ wire \in WiresOf(EventFrames, MaxFrames)
    /\ StreamStart
    /\ PollInit
    /\ NoScript

InitVariants ==
    /\ wire \in WiresOf(VariantFrames, MaxFrames)
    /\ StreamStart
    /\ PollInit
    /\ NoScript

SpecEvents == InitEvents /\ [][StreamNext]_vars

SpecVariants == InitVariants /\ [][StreamNext]_vars

(***************************************************************************)
(* Streams the agent service ends without a last terminator: complete      *)
(* lines followed by a non-empty tail, which is a whole done line, a whole *)
(* token line or the head of a data line.                                  *)
(***************************************************************************)
TailFrames == {DataLine("h"), DataLine("d")}

UnterminatedTails == {DataText("d"), DataText("i"), Marker}

InitTail ==
    /\ wire \in {w \o t : w \in WiresOf(TailFrames, MaxFrames - 1),
                           t \in UnterminatedTails}
    /\ StreamStart
    /\ PollInit
    /\ NoScript

SpecTail == InitTail /\ [][StreamNext]_vars

(***************************************************************************)
(* Scenario A: the agent service sends the token event with content Hi, a  *)
(* blank line, the done event and a blank line, and closes.  read() hands  *)
(* the characters over in chunks cut at any place.                         *)
(***************************************************************************)
ScenarioA ==
    DataPrefix \o TokenHiJson \o <<Newline>> \o BlankLine
        \o DataPrefix \o DoneJson \o <<Newline>> \o BlankLine

ScenarioANext ==
    \/ \E n \in 1..Len(wire) : ReadChunk(n)
    \/ ReadDone
    \/ Pull

InitScenarioA ==
    /\ wire = ScenarioA
    /\ StreamStart
    /\ PollInit
    /\ NoScript

SpecScenarioA == InitScenarioA /\ [][ScenarioANext]_vars

(***************************************************************************)
(* A scripted run of the poller: one job is polled and the service gives   *)
(* its status answers in a fixed order, the last one from then on.         *)
(***************************************************************************)
Polled == "j1"

ScenarioB == <<"running", "running", "running", "completed">>

\* a tick of the scripted run: the callback of lines 207-209, counted
ScriptedTick(t) ==
    /\ TickCall(t)
    /\ statusFetches' = statusFetches + 1
    /\ UNCHANGED script

\* the service answers a status fetch with the next answer of the script,
\* and a results fetch once the job is completed
ScriptedAnswer(r) ==
    /\ r \in BagToSet(requests)
    /\ r.resp = "pending"
    /\ \/ /\ r.call = "poll"
          /\ requests' = (requests (-) SetToBag({r}))
                            (+) SetToBag({[r EXCEPT !.resp = Head(script)]})
          /\ serverStatus' = [serverStatus EXCEPT ![r.job] = Head(script)]
          /\ script' = IF Len(script) > 1 THEN Tail(script) ELSE script
       \/ /\ r.call = "results"
          /\ serverStatus[r.job] = "completed"
          /\ requests' = (requests (-) SetToBag({r}))
                            (+) SetToBag({[r EXCEPT !.resp = "ok"]})
          /\ UNCHANGED <<serverStatus, script>>
    /\ UNCHANGED <<jobs, currentResults, pollingIntervals,
                   timers, nextTimer, pollResults, statusFetches>>
    /\ startIgnored' = FALSE
    /\ settled' = "none"
    /\ UNCHANGED streamVars

ScenarioBNext ==
    \/ StartPolling(Polled)
    \/ \E t \in TimerIds : ScriptedTick(t)
    \/ \E r \in BagToSet(requests) : ScriptedAnswer(r)
    \/ \E r \in BagToSet(requests) : PollResolve(r)
    \/ \E r \in BagToSet(requests) : FetchResultsResolve(r)

InitScenarioB ==
    /\ wire = <<>>
    /\ StreamStart
    /\ PollInit
    /\ statusFetches = 0
    /\ script = ScenarioB

SpecScenarioB == InitScenarioB /\ [][ScenarioBNext]_vars

\* fetchJob next to one polled job: the page loads any job with fetchJob
\* (run/page.tsx line 289) while the poller of one job runs and the store
\* may be reset.
FetchNext ==
    \/ StartPolling(Polled)
    \/ Reset
    \/ \E t \in TimerIds : Tick(t)
    \/ \E r \in BagToSet(requests) : PollResolve(r)
    \/ \E j \in JobIds : FetchJobCall(j)
    \/ \E r \in BagToSet(requests) : FetchJobResolve(r)
    \/ \E r \in BagToSet(requests) : FetchJobReject(r)
    \/ \E r \in BagToSet(requests) : FetchResultsResolve(r)
    \/ \E r \in BagToSet(requests) : ServerAnswer(r)
    \/ \E j \in Advancing : ServerAdvance(j)

SpecFetch == InitPoll /\ [][FetchNext]_vars

(***************************************************************************)
(* Properties.                                                             *)
(***************************************************************************)
\* the live interval timers whose callback polls jobId
LiveTimersOf(jobId) == {t \in DOMAIN timers : timers[t] = jobId}

PollsInFlight(jobId) ==
    {r \in BagToSet(requests) : r.call = "poll" /\ r.job = jobId}

Rank(st) ==
    CASE st = "queued" -> 0
      [] st = "running" -> 1
      [] OTHER -> 2

CountType(chunks, ty) ==
    Cardinality({i \in 1..Len(chunks) : chunks[i].type = ty})

\* the complete lines start() has taken out of the characters read so far
LinesRead ==
    LET pieces == Split(SubSeq(wire, 1, sent))
    IN  SubSeq(pieces, 1, Len(pieces) - 1)

\* C1: Poll dedup.  In every reachable state each job id has at most one
\* live interval timer, and that timer is the one the handle map holds for
\* it; a startPolling call that finds a handle leaves the timers as they are.
C1_PollDedup ==
    \A j \in JobIds :
        /\ Cardinality(LiveTimersOf(j)) <= 1
        /\ \A t \in LiveTimersOf(j) :
              j \in DOMAIN pollingIntervals /\ pollingIntervals[j] = t

\* C1 witness: startPolling has just been called on a job that is being
\* polled; the job still has its one timer, whose tick has one status fetch
\* in flight.
C1_Witness ==
    /\ startIgnored
    /\ Cardinality(LiveTimersOf("j1")) = 1
    /\ PollsInFlight("j1") # {}

\* C2: Terminal stop.  No polling session (timer) starts more than one
\* results fetch, and a session that has seen "completed" has no live timer.
C2_TerminalStop ==
    \A t \in TimerIds :
        /\ pollResults[t] <= 1
        /\ pollResults[t] >= 1 => t \notin DOMAIN timers

\* C3: Job status is monotonic and terminal states are absorbing: no step
\* moves the status of a record the store keeps backward along
\* queued -> running -> {completed, failed}, or changes a terminal status.
C3_StatusMonotonic ==
    [][\A i \in 1..Len(jobs) :
          (i <= Len(jobs') /\ jobs'[i].job_id = jobs[i].job_id) =>
             /\ Rank(jobs'[i].status) >= Rank(jobs[i].status)
             /\ jobs[i].status \in Terminal => jobs'[i].status = jobs[i].status
      ]_vars

\* C4: At most one finish chunk is enqueued per stream, whatever the backend
\* sends.
C4_AtMostOneFinish == CountType(emitted, "finish") <= 1

\* C5: Nothing is enqueued after the finish chunk: a finish chunk is the
\* last chunk of the stream.
C5_NothingAfterFinish ==
    \A i \in 1..Len(emitted) : emitted[i].type = "finish" => i = Len(emitted)

\* C6: Once an error data line has been processed (no done or error line
\* before it), exactly one error chunk has been enqueued and it is the last
\* chunk of the stream.
C6_ErrorEventTerminates ==
    LET lines == LinesRead
    IN  (\E i \in 1..Len(lines) :
            /\ lines[i] = DataText("e")
            /\ \A j \in 1..(i - 1) : lines[j] \notin {DataText("d"), DataText("e")})
        => /\ CountType(emitted, "error") = 1
           /\ emitted[Len(emitted)].type = "error"

\* C7: No silent termination: when the consumer sees the stream end, the
\* last chunk it was given is a finish or an error chunk.
C7_NoSilentTermination ==
    consumer \in {"done", "failed"} =>
        /\ written # <<>>
        /\ written[Len(written)].type \in {"finish", "error"}

\* C8: When the upstream read has failed, exactly one error chunk has been
\* enqueued for the consumer and the output stream is not in the errored
\* state (it closes normally).
C8_ReadFailureIsOneErrorEvent ==
    upstream = "failed" =>
        /\ CountType(emitted, "error") = 1
        /\ outState # "errored"

\* C9: Backpressure: a step that reads from upstream is taken only while a
\* read of the consumer is pending and nothing is queued for it.
C9_ReadsOnlyOnPull ==
    [][sent' # sent => (consumer = "waiting" /\ queue = <<>>)]_vars

\* C10: Once the consumer has cancelled the returned stream, the upstream
\* reader is released and start() no longer waits on an upstream read.
C10_CancelReleasesReader ==
    consumer = "cancelled" => (~readerLocked /\ pc = "returned")

\* the fragment after the last terminator of the characters read so far
TailRead ==
    LET pieces == Split(SubSeq(wire, 1, sent))
    IN  pieces[Len(pieces)]

\* C11: Chunk-boundary independence.  However the characters read so far
\* were cut into chunks, the chunks enqueued are those of the complete
\* lines of the characters read, taken as one text, and the pending buffer
\* is the fragment after their last terminator.
C11_ChunkBoundaryIndependence ==
    /\ emitted = ChunksOf(LinesRead)
    /\ buffer = TailRead

\* C11 witness: two lines have been turned into chunks and the last read
\* ended inside a later line, whose head waits in the buffer.
C11_Witness ==
    /\ Len(emitted) >= 2
    /\ buffer # <<>>
    /\ sent < Len(wire)

\* the backend events carried by lines: the data lines JSON.parse accepts
ParsedLine(line) == JsonParse(Slice(line, 6))

BackendEvents(lines) ==
    LET IsEvent(line) == IsDataLine(line) /\ ParsedLine(line).ok
        events == SelectSeq(lines, IsEvent)
    IN  [i \in 1..Len(events) |-> ParsedLine(events[i])]

OfType(records, ty) ==
    LET Is(r) == r.type = ty
    IN  SelectSeq(records, Is)

\* the content of the token events, in order
TokenText(events) ==
    LET tokens == OfType(events, "token")
    IN  [i \in 1..Len(tokens) |-> tokens[i].content]

\* the text of the text-delta chunks, in order
DeltaText(chunks) ==
    LET deltas == OfType(chunks, "text-delta")
    IN  [i \in 1..Len(deltas) |-> deltas[i].value]

\* C12: Single finish and text fidelity.  When the events read so far hold
\* exactly one done event, exactly one finish chunk (reason stop) has been
\* enqueued, and the text of the text-delta chunks, in order, is the content
\* of the token events, in order.
C12_SingleFinishTextFidelity ==
    LET events == BackendEvents(LinesRead)
    IN  Len(OfType(events, "done")) = 1 =>
           /\ OfType(emitted, "finish") = <<[type |-> "finish", value |-> "stop"]>>
           /\ DeltaText(emitted) = TokenText(events)

\* C12 witness: the stream has ended after two different tokens and one
\* done event, and the consumer holds both texts and the finish chunk.
C12_Witness ==
    /\ upstream = "closed"
    /\ Len(OfType(BackendEvents(LinesRead), "done")) = 1
    /\ DeltaText(written) = <<"h", "i">>
    /\ CountType(written, "finish") = 1

\* C13: Scenario B.  With status answers running, running, running,
\* completed, the poller starts no more than 4 status fetches and no more
\* than 1 results fetch, and when a results fetch has been started the
\* handle is gone and exactly 4 status fetches were made.
C13_ScenarioB ==
    /\ statusFetches <= 4
    /\ \A t \in TimerIds : pollResults[t] <= 1
    /\ (\E t \in TimerIds : pollResults[t] >= 1) =>
          /\ Polled \notin DOMAIN pollingIntervals
          /\ statusFetches = 4

\* the handle of jobId is installed and its timer is live
Polling(jobId) ==
    /\ jobId \in DOMAIN pollingIntervals
    /\ pollingIntervals[jobId] \in DOMAIN timers

C15_FailedStop ==
    [][settled' = "failed" =>
          \E r \in BagToSet(requests) :
             /\ r.call = "poll" /\ r.resp = "failed"
             /\ r.job \notin DOMAIN pollingIntervals'
             /\ \A t \in DOMAIN timers' : timers'[t] # r.job
             /\ requests' = requests (-) SetToBag({r})
             /\ pollResults' = pollResults
      ]_vars

\* C15 witness: a tick has just got the status failed for j1: the record
\* says failed, j1 is no longer polled and no results fetch was started.
C15_Witness ==
    /\ settled = "failed"
    /\ \E i \in 1..Len(jobs) : jobs[i].job_id = "j1" /\ jobs[i].status = "failed"
    /\ "j1" \notin DOMAIN pollingIntervals
    /\ \A t \in TimerIds : pollResults[t] = 0
    /\ \A r \in BagToSet(requests) : r.call # "results"

\* how many status fetches of ticks for jobId are in the bag
PollCount(bag, jobId) ==
    LET polls == {r \in BagToSet(bag) : r.call = "poll" /\ r.job = jobId}
        RECURSIVE Sum(_)
        Sum(rs) == IF rs = {} THEN 0
                   ELSE LET r == CHOOSE x \in rs : TRUE
                        IN  CopiesIn(r, bag) + Sum(rs \ {r})
    IN  Sum(polls)

\* C16: Cancellation takes effect before the next tick.  stopPolling(jobId)
\* leaves jobId without handle, stopAllPolling() and reset() leave no handle
\* at all; a job without handle has no live timer, no step starts a status
\* fetch for it, and only startPolling(jobId) gives it a handle again.
C16_NoTickAfterCancel ==
    [][/\ \A j \in JobIds : StopPolling(j) => j \notin DOMAIN pollingIntervals'
       /\ (StopAllPolling \/ Reset) => pollingIntervals' = EmptyMap
       /\ \A j \in JobIds \ DOMAIN pollingIntervals :
             /\ LiveTimersOf(j) = {}
             /\ PollCount(requests', j) <= PollCount(requests, j)
             /\ j \in DOMAIN pollingIntervals' => StartPolling(j)
      ]_vars

\* C16 witness: reset() has returned while a tick of j1 still awaits its
\* status: the store is empty, no timer is live, the fetch is in flight.
C16_Witness ==
    /\ jobs = <<>>
    /\ timers = EmptyMap
    /\ pollingIntervals = EmptyMap
    /\ \E r \in BagToSet(requests) :
          r.call = "poll" /\ r.job = "j1" /\ r.resp = "pending"

\* a data line whose payload JSON.parse rejects
Malformed(line) == IsDataLine(line) /\ ~ParsedLine(line).ok

\* the chunks the switch makes of a sequence of backend events
RECURSIVE ChunksOfEvents(_)
ChunksOfEvents(events) ==
    IF events = <<>> THEN <<>>
    ELSE ChunkOf(Head(events)) \o ChunksOfEvents(Tail(events))

\* C17: Malformed-frame resilience.  When a data line with an invalid
\* payload has been read, the chunks enqueued are those of the valid events
\* read before and after it, none for the invalid line, and the output
\* stream is in the error state only if the upstream read itself failed.
C17_MalformedFrameResilience ==
    LET lines == LinesRead
    IN  (\E i \in 1..Len(lines) : Malformed(lines[i])) =>
           /\ emitted = ChunksOfEvents(BackendEvents(lines))
           /\ outState = "errored" => upstream = "failed"

\* C17 witness: token h, an invalid data line and token i have been read to
\* the end of the stream; both texts were enqueued and the stream closed.
C17_Witness ==
    /\ LinesRead = <<DataText("h"), DataPrefix \o <<"{", "x">>, DataText("i")>>
    /\ DeltaText(emitted) = <<"h", "i">>
    /\ upstream = "closed"
    /\ outState # "errored"

\* the events of the lines that begin with the five characters data:
MarkedEvents(lines) ==
    LET Payload(line) == JsonParse(Slice(line, 5))
        IsEvent(line) == StartsWith(line, Marker) /\ Payload(line).ok
        events == SelectSeq(lines, IsEvent)
    IN  [i \in 1..Len(events) |-> Payload(events[i])]

\* C18: Every line read that begins with data: and carries a valid payload
\* is a backend event, with or without a space after the colon: the chunks
\* enqueued are those of all such lines.
C18_MarkerWithoutSpace ==
    emitted = ChunksOfEvents(MarkedEvents(LinesRead))

\* the events that are not classification events or of an unknown type
WithCase(events) ==
    LET Known(e) == e.type \in {"token", "sources", "done", "error"}
    IN  SelectSeq(events, Known)

\* C19: Events without a canonical mapping are no-ops.  The chunks enqueued
\* are those of the events read with every classification event and every
\* event of an unknown type left out, and such events put the output stream
\* in no error state.
C19_UnmappedEventsNoOp ==
    /\ emitted = ChunksOfEvents(WithCase(BackendEvents(LinesRead)))
    /\ outState = "errored" => upstream = "failed"

\* C19 witness: a classification event, an event of unknown type and a
\* token have been read to the end of the stream; the only chunk is the
\* token's text.
C19_Witness ==
    /\ LinesRead = <<DataText("c"), DataText("u"), DataText("h")>>
    /\ emitted = <<[type |-> "text-delta", value |-> "h"]>>
    /\ upstream = "closed"
    /\ outState # "errored"

\* the events read that the switch turns into a chunk, in arrival order
MappedEvents ==
    LET Mapped(e) == ChunkOf(e) # NoChunk
    IN  SelectSeq(BackendEvents(LinesRead), Mapped)

\* the chunks enqueued are, one by one, the chunks of the events mapped
InOrderOf(mapped) ==
    /\ Len(emitted) = Len(mapped)
    /\ \A i \in 1..Len(emitted) : <<emitted[i]>> = ChunkOf(mapped[i])

\* C20: Chunks are enqueued in backend-arrival order.  The i-th chunk
\* enqueued is the chunk of the i-th event read that has one, and the
\* consumer is handed the chunks in that same order.
C20_ArrivalOrder ==
    /\ InOrderOf(MappedEvents)
    /\ Len(written) <= Len(emitted)
    /\ \A i \in 1..Len(written) : written[i] = emitted[i]

\* C20 witness: token i, token h and done arrived in this order and the
\* consumer has been handed text i, text h and finish in this order.
C20_Witness ==
    /\ LinesRead = <<DataText("i"), DataText("h"), DataText("d")>>
    /\ written = <<[type |-> "text-delta", value |-> "i"],
                   [type |-> "text-delta", value |-> "h"],
                   [type |-> "finish", value |-> "stop"]>>

\* C21: Reader release on upstream termination.  Once upstream has closed
\* or its read has failed, start() has returned and the lock on the upstream
\* reader is released; and from the release on no chunk is enqueued, so the
\* release comes after the last chunk of the stream.
C21_ReaderReleased ==
    [][/\ upstream' # "open" => (~readerLocked' /\ pc' = "returned")
       /\ ~readerLocked => emitted' = emitted
      ]_vars

\* C21 witness: the upstream read failed after chunks had been enqueued, and
\* the reader is released.
C21_Witness ==
    /\ upstream = "failed"
    /\ ~readerLocked
    /\ Len(emitted) >= 2

\* C22: stopPolling(jobId) removes the handle of jobId and clears its timer,
\* and changes nothing else: the handles and timers of the other jobs, the
\* job records, the results and the calls in flight stay as they were.
\* Without a handle for jobId the store and the timers are left unchanged.
C22_StopPollingFrame ==
    [][\A j \in JobIds : StopPolling(j) =>
          /\ jobs' = jobs
          /\ currentResults' = currentResults
          /\ requests' = requests
          /\ j \notin DOMAIN pollingIntervals'
          /\ DOMAIN pollingIntervals' = DOMAIN pollingIntervals \ {j}
          /\ \A k \in DOMAIN pollingIntervals' :
                pollingIntervals'[k] = pollingIntervals[k]
          /\ DOMAIN timers' =
                DOMAIN timers \ {pollingIntervals[k] : k \in DOMAIN pollingIntervals \cap {j}}
          /\ \A t \in DOMAIN timers' : timers'[t] = timers[t]
      ]_vars

\* C22 witness: j2 and then j1 were started, two ticks of j1 are awaiting
\* their status and fill the calls in flight, and stopPolling(j1) has
\* returned: the timer of j1 is cleared, j2 is still polled by its timer,
\* and the records are those submitted.
C22_Witness ==
    /\ "j1" \notin DOMAIN pollingIntervals
    /\ Polling("j2")
    /\ pollingIntervals["j2"] = 1
    /\ 2 \notin DOMAIN timers
    /\ jobs = SubmittedJobs
    /\ BagCardinality(requests) = MaxInFlight
    /\ \A r \in BagToSet(requests) :
          r.call = "poll" /\ r.timer = 2 /\ r.resp = "pending"

\* C23: stopAllPolling() clears the timer of every handle of the map and
\* leaves the map empty, and reset() does the same and empties the store;
\* when either has returned no interval timer is live.
C23_StopAllClearsTimers ==
    [][(StopAllPolling \/ Reset) =>
          /\ \A j \in DOMAIN pollingIntervals :
                pollingIntervals[j] \notin DOMAIN timers'
          /\ pollingIntervals' = EmptyMap
          /\ timers' = EmptyMap
          /\ Reset => (jobs' = <<>> /\ currentResults' = "null")
      ]_vars

\* C23 witness: both jobs were polled, a tick of each timer awaits its
\* status, and reset() has returned: the store is empty, the map is empty
\* and no timer is live.
C23_Witness ==
    /\ jobs = <<>>
    /\ nextTimer = 3
    /\ pollingIntervals = EmptyMap
    /\ timers = EmptyMap
    /\ \A t \in {1, 2} : \E r \in BagToSet(requests) :
          r.call = "poll" /\ r.timer = t /\ r.resp = "pending"

\* C24: An unterminated tail is discarded.  When upstream has closed with a
\* non-empty fragment in the buffer, the chunks enqueued are those of the
\* terminated lines alone and the fragment is still in the buffer: it has
\* produced no chunk, also when it is by itself a complete data line.
C24_UnterminatedTailDiscarded ==
    (upstream = "closed" /\ buffer # <<>>) =>
        /\ buffer = TailRead
        /\ emitted = ChunksOf(LinesRead)

\* C24 witness: the stream was token h and then a done line without its
\* terminator; upstream has closed, the done line is left in the buffer,
\* and the consumer saw the stream end after the text alone.
C24_Witness ==
    /\ upstream = "closed"
    /\ buffer = DataText("d")
    /\ emitted = <<[type |-> "text-delta", value |-> "h"]>>
    /\ consumer = "done"

\* the canonical sequence of Scenario A: the text of the token, then finish
ScenarioAExpected ==
    <<[type |-> "text-delta", value |-> "Hi"],
      [type |-> "finish", value |-> "stop"]>>

\* C25: Scenario A.  However the bytes of the scenario are cut into chunks,
\* the chunks enqueued are at every moment a prefix of [text Hi, finish
\* stop]; when upstream has closed they are exactly that sequence and the
\* output stream is closed or closes once its queue is read; and when the
\* consumer sees the end it has been handed exactly that sequence.
C25_ScenarioA ==
    /\ \E n \in 0..2 : emitted = SubSeq(ScenarioAExpected, 1, n)
    /\ upstream = "closed" =>
          /\ emitted = ScenarioAExpected
          /\ outState = "closed" \/ (closeRequested /\ queue # <<>>)
    /\ consumer \in {"done", "failed"} =>
          /\ consumer = "done"
          /\ written = ScenarioAExpected
          /\ outState = "closed"

\* C25 witness: the whole scenario was read, the consumer was handed the
\* text and the finish chunk and then saw the stream closed.
C25_Witness ==
    /\ sent = Len(ScenarioA)
    /\ upstream = "closed"
    /\ consumer = "done"
    /\ written = ScenarioAExpected
    /\ outState = "closed"

\* C26: At most one status fetch of the poller is in flight per job: in
\* every reachable state the calls awaiting their promise hold no more than
\* one getJobStatus call of a tick for each job id.
C26_OnePollInFlight ==
    \A j \in JobIds : PollCount(requests, j) <= 1

\* C27: A tick cancels only the handle that scheduled it.  The step that
\* settles the status fetch of a tick (status or error) leaves every handle
\* whose timer is not the timer of that tick in the map, with its timer
\* live.
C27_TickCancelsOwnHandle ==
    [][\A r \in BagToSet(requests) :
          (PollResolve(r) \/ PollReject(r)) =>
             \A j \in DOMAIN pollingIntervals :
                pollingIntervals[j] # r.timer =>
                   /\ j \in DOMAIN pollingIntervals'
                   /\ pollingIntervals'[j] = pollingIntervals[j]
                   /\ pollingIntervals[j] \in DOMAIN timers'
      ]_vars

\* C28: A status fetch that resolves after its polling was cancelled has no
\* effect.  When the timer of the tick is no longer live, the step in which
\* its status arrives leaves the job records as they were and starts no
\* results fetch: the call is settled and nothing else changes.
C28_LateStatusIgnored ==
    [][\A r \in BagToSet(requests) :
          (PollResolve(r) /\ r.timer \notin DOMAIN timers) =>
             /\ jobs' = jobs
             /\ requests' = requests (-) SetToBag({r})
             /\ pollResults' = pollResults
      ]_vars

\* C29: The handle map mirrors the live timers.  In every reachable state
\* each key of pollingIntervals maps to a timer that was created and not
\* cleared, whose callback polls that key, and every live timer is the
\* value of exactly one key.
C29_MapMirrorsTimers ==
    /\ \A j \in DOMAIN pollingIntervals :
          /\ pollingIntervals[j] \in DOMAIN timers
          /\ timers[pollingIntervals[j]] = j
    /\ \A t \in DOMAIN timers :
          Cardinality({j \in DOMAIN pollingIntervals : pollingIntervals[j] = t}) = 1

\* C29 witness: a first timer was created and cleared, polling of j1 runs
\* on the second timer, which is the only live one, and a status fetch of
\* the first timer is still in flight.
C29_Witness ==
    /\ DOMAIN pollingIntervals = {"j1"}
    /\ pollingIntervals["j1"] = 2
    /\ DOMAIN timers = {2}
    /\ \E r \in BagToSet(requests) : r.call = "poll" /\ r.timer = 1

\* C30: Ticks and fetchJob never change which jobs the store holds.  The
\* step in which the status of a tick or of fetchJob arrives keeps the
\* number and order of the records, replaces the records whose job_id is
\* the fetched one by the fetched record and leaves every other record as
\* it was; with no such record the array is unchanged.
C30_JobSetUnchanged ==
    [][\A r \in BagToSet(requests) :
          (PollResolve(r) \/ FetchJobResolve(r)) =>
             /\ Len(jobs') = Len(jobs)
             /\ \A i \in 1..Len(jobs) :
                   jobs'[i] = IF jobs[i].job_id = r.job
                              THEN ServerJob(r.job, r.resp)
                              ELSE jobs[i]
      ]_vars

\* C30 witness: a tick has just got the status running for j1: the record
\* of j1 says running, the record of j2 is the one submitted, and the order
\* of the two is the same.
C30_Witness ==
    /\ settled = "running"
    /\ jobs = <<ServerJob("j2", "queued"), ServerJob("j1", "running")>>

=============================================================================
